---------------------------- MODULE Spec2Model ----------------------------
(***************************************************************************)
(* A model of lib-dtproject (src/src/dtproject/dtproject.py): the          *)
(* DTProject object, its two descriptor parsers (the legacy `.dtproject`   *)
(* file and the layered `dtproject/` directory), the recipe indirection,   *)
(* the template path mapping, the image names, the launchers and the       *)
(* configurations.                                                         *)
(*                                                                         *)
(* Text is modelled as sequences of symbols (one-character strings, or     *)
(* whole words where the characters inside a word play no role); a file is *)
(* a sequence of lines.  Joined symbols give TLA+ strings, which stand for *)
(* the Python strings the code stores in its dictionaries.                 *)
(***************************************************************************)
EXTENDS Naturals, Integers, Sequences, FiniteSets, TLC

VARIABLES
    pathExists,     \* TRUE iff the project path exists on disk
    dotfile,        \* the entry <path>/.dtproject on disk and its lines
    dtprojectDir,   \* the entry <path>/dtproject on disk
    gitDir,         \* the entry <path>/.git and what git reports there
    listing,        \* the entries of the directory a path pattern looks in
    launchersDir,   \* the `launchers` entries of the project and of its recipe
    configurationsFile, \* the entry <path>/configurations.yaml
    existing,       \* the recipe directories that exist on disk
    project,        \* the fields of the DTProject object (self)
    ret             \* outcome of the last call: what it returned or raised,
                    \* the collaborator calls it made and its arguments

disk ==
    <<pathExists, dotfile, dtprojectDir, gitDir, listing, launchersDir,
      configurationsFile>>
vars ==
    <<pathExists, dotfile, dtprojectDir, gitDir, listing, launchersDir,
      configurationsFile, existing, project, ret>>

-----------------------------------------------------------------------------
(* Bounds of the model *)

MaxLineLen == 3
MaxLines == 2
MaxCustom == 1
MaxNameLen == 3
MaxEntries == 2

-----------------------------------------------------------------------------
(* Python values *)

None == "None"
\* an entry that is not on disk
NoFile == [kind |-> "missing", lines |-> <<>>]
\* a regular file holding `lines`
File(lines) == [kind |-> "file", lines |-> lines]
PATH == "/proj"

\* a call that returned `value`
Returned(op, value) ==
    [op |-> op, status |-> "returned", value |-> value, called |-> <<>>,
     args |-> <<>>]
\* a call that raised the exception `exc`
Raised(op, exc) ==
    [op |-> op, status |-> exc, value |-> None, called |-> <<>>,
     args |-> <<>>]
\* a call that raised `exc` because of `what`
RaisedAt(op, exc, what) ==
    [op |-> op, status |-> exc, value |-> what, called |-> <<>>,
     args |-> <<>>]
NoCall ==
    [op |-> "none", status |-> "none", value |-> None, called |-> <<>>,
     args |-> <<>>]

\* a directory that is not on disk, and one holding `files` in listdir order
NoDirectory == [exists |-> FALSE, files |-> <<>>]
Directory(files) == [exists |-> TRUE, files |-> files]
\* neither the project nor its recipe has a `launchers` directory
NoLaunchers == [project |-> NoDirectory, recipe |-> NoDirectory]
\* no configurations.yaml; `parsed` is what parse_configurations makes of one
NoConfigurations == [kind |-> "missing", parsed |-> <<>>]

-----------------------------------------------------------------------------
(* str methods, on sequences of symbols *)

Whitespace == {" ", "\t", "\n"}

RECURSIVE lstrip(_)
lstrip(s) ==
    IF s # <<>> /\ Head(s) \in Whitespace THEN lstrip(Tail(s)) ELSE s

RECURSIVE rstrip(_)
rstrip(s) ==
    IF s # <<>> /\ s[Len(s)] \in Whitespace
    THEN rstrip(SubSeq(s, 1, Len(s) - 1))
    ELSE s

strip(s) == rstrip(lstrip(s))

\* str.upper(), symbol by symbol
upperSym(c) ==
    CASE c = "a" -> "A"
      [] c = "b" -> "B"
      [] c = "name" -> "NAME"
      [] c = "type" -> "TYPE"
      [] OTHER -> c

upper(s) == [i \in 1..Len(s) |-> upperSym(s[i])]

\* str.startswith
startswith(s, c) == s # <<>> /\ Head(s) = c

\* str.split(sep): the pieces between the occurrences of sep
RECURSIVE split(_, _)
split(s, sep) ==
    IF \A i \in 1..Len(s) : s[i] # sep
    THEN <<s>>
    ELSE LET i == CHOOSE i \in 1..Len(s) :
                      s[i] = sep /\ \A j \in 1..(i - 1) : s[j] # sep
         IN  <<SubSeq(s, 1, i - 1)>> \o split(SubSeq(s, i + 1, Len(s)), sep)

\* the Python string a sequence of symbols spells
RECURSIVE Join(_)
Join(s) == IF s = <<>> THEN "" ELSE Head(s) \o Join(Tail(s))

\* [x for x in s if Keep(x)]
RECURSIVE SelectLines(_)
SelectLines(lines) ==
    IF lines = <<>> THEN <<>>
    ELSE IF Len(Head(lines)) > 0 /\ ~startswith(Head(lines), "#")
         THEN <<Head(lines)>> \o SelectLines(Tail(lines))
         ELSE SelectLines(Tail(lines))

-----------------------------------------------------------------------------
(* Required-field tables (constants.py) *)

REQUIRED_METADATA_KEYS ==
    [v \in {"*", "1", "2", "3"} |->
        IF v = "*" THEN <<"TYPE_VERSION">> ELSE <<"TYPE", "VERSION">>]

REQUIRED_METADATA_PER_TYPE_KEYS ==
    [t \in {"template-exercise"} |->
        [v \in {"3"} |->
            <<"RECIPE_REPOSITORY", "RECIPE_BRANCH", "RECIPE_LOCATION">>]]

\* REQUIRED_METADATA_PER_TYPE_KEYS.get(type, {}).get(version, [])
PerTypeKeys(ty, ver) ==
    IF ty \in DOMAIN REQUIRED_METADATA_PER_TYPE_KEYS
       /\ ver \in DOMAIN REQUIRED_METADATA_PER_TYPE_KEYS[ty]
    THEN REQUIRED_METADATA_PER_TYPE_KEYS[ty][ver]
    ELSE <<>>

-----------------------------------------------------------------------------
(* DTProjectV1to3._get_project_info *)

\* the first key of `keys`, in order, that `metadata` lacks (None if none)
FirstMissing(keys, metadata) ==
    IF \A i \in 1..Len(keys) : keys[i] \in DOMAIN metadata
    THEN None
    ELSE keys[CHOOSE i \in 1..Len(keys) :
                 /\ keys[i] \notin DOMAIN metadata
                 /\ \A j \in 1..(i - 1) : keys[j] \in DOMAIN metadata]

\* lines 955-957: strip every line, drop the empty ones and the comments
RemainingLines(file) ==
    SelectLines([i \in 1..Len(file) |-> strip(file[i])])

\* the dictionary of line 959 with the keys left in the case of the file
DictOfPairs_keys_as_written(pairs) ==
    LET key(i) == Join(strip(pairs[i][1]))
        val(i) == Join(strip(pairs[i][2]))
        keys == {key(i) : i \in 1..Len(pairs)}
        last(k) == CHOOSE i \in 1..Len(pairs) :
                       key(i) = k /\ \A j \in (i + 1)..Len(pairs) : key(j) # k
    IN  [k \in keys |-> val(last(k))]

\* line 959: {key.strip().upper(): val.strip() for key, val in pairs};
\* a later pair with the same key replaces an earlier one
DictOfPairs(pairs) ==
    LET key(i) == Join(upper(strip(pairs[i][1])))
        val(i) == Join(strip(pairs[i][2]))
        keys == {key(i) : i \in 1..Len(pairs)}
        last(k) == CHOOSE i \in 1..Len(pairs) :
                       key(i) = k /\ \A j \in (i + 1)..Len(pairs) : key(j) # k
    IN  [k \in keys |-> val(last(k))]

\* lines 948-959: the metadata read from the lines of the file
ReadMetadata(file) ==
    IF file.lines = <<>>
    THEN Raised("_get_project_info", "MalformedDTProject")
    ELSE LET lines == RemainingLines(file.lines)
             pairs == [i \in 1..Len(lines) |-> split(lines[i], "=")]
         IN  IF \E i \in 1..Len(pairs) : Len(pairs[i]) # 2
             THEN Raised("_get_project_info", "ValueError")
             ELSE Returned("_get_project_info", DictOfPairs(pairs))

\* the validation with the keys of every version checked before the version
ValidateMetadata_keys_first(metadata, path) ==
    IF FirstMissing(REQUIRED_METADATA_KEYS["*"], metadata) # None
    THEN Raised("_get_project_info", "MalformedDTProject")
    ELSE LET version == metadata["TYPE_VERSION"] IN
    IF FirstMissing(REQUIRED_METADATA_KEYS["1"], metadata) # None
    THEN Raised("_get_project_info", "MalformedDTProject")
    ELSE IF version = "*" \/ version \notin DOMAIN REQUIRED_METADATA_KEYS
    THEN Raised("_get_project_info", "UnsupportedDTProjectVersion")
    ELSE IF FirstMissing(PerTypeKeys(metadata["TYPE"], version), metadata) # None
    THEN Raised("_get_project_info", "MalformedDTProject")
    ELSE Returned("_get_project_info",
                  [k \in DOMAIN metadata \cup {"PATH"} |->
                      IF k = "PATH" THEN path ELSE metadata[k]])

\* lines 960-983, on the parsed metadata
ValidateMetadata(metadata, path) ==
    IF FirstMissing(REQUIRED_METADATA_KEYS["*"], metadata) # None
    THEN Raised("_get_project_info", "MalformedDTProject")
    ELSE LET version == metadata["TYPE_VERSION"] IN
    IF version = "*" \/ version \notin DOMAIN REQUIRED_METADATA_KEYS
    THEN Raised("_get_project_info", "UnsupportedDTProjectVersion")
    ELSE IF FirstMissing(REQUIRED_METADATA_KEYS[version], metadata) # None
    THEN Raised("_get_project_info", "MalformedDTProject")
    ELSE IF FirstMissing(PerTypeKeys(metadata["TYPE"], version), metadata) # None
    THEN Raised("_get_project_info", "MalformedDTProject")
    ELSE Returned("_get_project_info",
                  [k \in DOMAIN metadata \cup {"PATH"} |->
                      IF k = "PATH" THEN path ELSE metadata[k]])

\* lines 937-983: `exists` tells whether the path exists, `file` is the
\* entry <path>/.dtproject
_get_project_info(path, exists, file) ==
    IF ~exists
    THEN Raised("_get_project_info", "OSError")
    ELSE IF file.kind = "missing"
    THEN Raised("_get_project_info", "DTProjectNotFound")
    ELSE IF file.kind = "dir"
    THEN Raised("_get_project_info", "IsADirectoryError")
    ELSE IF ReadMetadata(file).status # "returned"
    THEN ReadMetadata(file)
    ELSE ValidateMetadata(ReadMetadata(file).value, path)

\* lines 985-991
DTProjectV1to3_is_instance_of(path, exists, file) ==
    _get_project_info(path, exists, file).status = "returned"

-----------------------------------------------------------------------------
(* DTProjectV4._load_layers *)

REQUIRED_LAYERS == <<"self", "template", "distro", "base">>

RequiredLayerNames == {REQUIRED_LAYERS[i] : i \in 1..Len(REQUIRED_LAYERS)}

\* A layer file <layer>.yaml: `state` is "missing", "dir" (the entry is not a
\* regular file), "malformed" (the loader cannot turn it into its record) or
\* "valid"; `name` and `version` are the fields of the record the model reads.
LayerFile(state, n, ver) ==
    [state |-> state, name |-> n, version |-> ver]

\* the first layer of `names`, in order, whose file satisfies Bad (None if none)
FirstLayer(names, Bad(_)) ==
    IF \A i \in 1..Len(names) : ~Bad(names[i])
    THEN None
    ELSE names[CHOOSE i \in 1..Len(names) :
                  Bad(names[i]) /\ \A j \in 1..(i - 1) : ~Bad(names[j])]

\* _load_layers trusting the last required layer to parse
_load_layers_base_unparsed(path, exists, dir) ==
    LET absent(l) == dir.required[l].state \in {"missing", "dir"}
        unparsable(l) == l # "base" /\ dir.required[l].state # "valid"
        customNames == [i \in 1..Len(dir.custom) |-> dir.custom[i].name]
    IN
    IF ~exists
    THEN Raised("_load_layers", "OSError")
    ELSE IF dir.kind = "missing"
    THEN Raised("_load_layers", "DTProjectNotFound")
    ELSE IF dir.kind # "dir"
    THEN Raised("_load_layers", "MalformedDTProject")
    ELSE IF FirstLayer(REQUIRED_LAYERS, absent) # None
    THEN RaisedAt("_load_layers", "MalformedDTProject",
                  FirstLayer(REQUIRED_LAYERS, absent))
    ELSE IF \E i \in 1..Len(dir.custom) : dir.custom[i].state # "valid"
    THEN Raised("_load_layers", "YAMLError")
    ELSE IF \E i \in 1..Len(dir.custom) : ~dir.custom[i].identifier
    THEN Raised("_load_layers", "TypeError")
    ELSE IF FirstLayer(REQUIRED_LAYERS, unparsable) # None
    THEN RaisedAt("_load_layers", "ParseError",
                  FirstLayer(REQUIRED_LAYERS, unparsable))
    ELSE Returned("_load_layers",
                  [self |-> dir.required["self"],
                   template |-> dir.required["template"],
                   distro |-> dir.required["distro"],
                   base |-> dir.required["base"],
                   custom |-> {customNames[i] : i \in 1..Len(customNames)}])

\* lines 812-865: `dir` is the entry <path>/dtproject: its kind, its
\* required layer files and its other *.yaml files in glob order
_load_layers(path, exists, dir) ==
    LET absent(l) == dir.required[l].state \in {"missing", "dir"}
        unparsable(l) == dir.required[l].state # "valid"
        customNames == [i \in 1..Len(dir.custom) |-> dir.custom[i].name]
        badCustom(i) == dir.custom[i].state # "valid"
        badField(i) == ~dir.custom[i].identifier
    IN
    IF ~exists
    THEN Raised("_load_layers", "OSError")
    ELSE IF dir.kind = "missing"
    THEN Raised("_load_layers", "DTProjectNotFound")
    ELSE IF dir.kind # "dir"
    THEN Raised("_load_layers", "MalformedDTProject")
    \* lines 830-836: every required file is there
    ELSE IF FirstLayer(REQUIRED_LAYERS, absent) # None
    THEN RaisedAt("_load_layers", "MalformedDTProject",
                  FirstLayer(REQUIRED_LAYERS, absent))
    \* lines 841-846: yaml.safe_load of every custom layer
    ELSE IF \E i \in 1..Len(dir.custom) : badCustom(i)
    THEN RaisedAt("_load_layers", "YAMLError",
                  dir.custom[CHOOSE i \in 1..Len(dir.custom) :
                      badCustom(i) /\ \A j \in 1..(i - 1) : ~badCustom(j)].name)
    \* lines 849-853: make_dataclass wants identifiers as field names
    ELSE IF \E i \in 1..Len(dir.custom) : badField(i)
    THEN RaisedAt("_load_layers", "TypeError",
                  dir.custom[CHOOSE i \in 1..Len(dir.custom) :
                      badField(i) /\ \A j \in 1..(i - 1) : ~badField(j)].name)
    \* lines 856-862: from_yaml_file of the four required layers, in order
    ELSE IF FirstLayer(REQUIRED_LAYERS, unparsable) # None
    THEN RaisedAt("_load_layers", "ParseError",
                  FirstLayer(REQUIRED_LAYERS, unparsable))
    ELSE Returned("_load_layers",
                  [self |-> dir.required["self"],
                   template |-> dir.required["template"],
                   distro |-> dir.required["distro"],
                   base |-> dir.required["base"],
                   custom |-> {customNames[i] : i \in 1..Len(customNames)}])

\* lines 867-873
DTProjectV4_is_instance_of(path, exists, dir) ==
    _load_layers(path, exists, dir).status = "returned"

-----------------------------------------------------------------------------
(* The DTProject object *)

EmptyDict == [k \in {} |-> ""]

\* self._repository = None
NoRepository ==
    [set |-> FALSE, name |-> None, branch |-> <<>>, head_version |-> <<>>,
     index_nmodified |-> 0, index_nadded |-> 0]

\* lines 99-112: the fields of self._repository the model reads, taken from
\* what _get_repo_info reports
RepositoryOf(git) ==
    [set |-> TRUE, name |-> git.name, branch |-> git.branch,
     head_version |-> git.head_version,
     index_nmodified |-> git.index_nmodified,
     index_nadded |-> git.index_nadded]

\* the object before __init__ has run
Unconstructed ==
    [constructed |-> FALSE,
     cls |-> "DTProject",
     _adapters |-> <<>>,
     _repository |-> NoRepository,
     _custom_recipe_dir |-> None,
     _recipe_version |-> None,
     _project_info |-> EmptyDict,
     _type |-> None,
     _type_version |-> None,
     _version |-> None,
     _layers |-> EmptyDict]

\* Python truthiness of an Optional[str]
Truthy(x) == x # None /\ x # ""

\* lines 882-888
DTProjectV1to3__init__(self, path, exists, file) ==
    LET info == _get_project_info(path, exists, file).value
    IN  [self EXCEPT !._project_info = info,
                     !._type = info["TYPE"],
                     !._type_version = info["TYPE_VERSION"],
                     !._version = info["VERSION"],
                     !._adapters = Append(@, "dtproject")]

\* lines 756-759
DTProjectV4__init__(self, path, exists, dir) ==
    [self EXCEPT !._layers = _load_layers(path, exists, dir).value,
                 !._adapters = Append(@, "dtproject")]

\* lines 89-119: the object __init__ leaves behind
DTProject__init__(path, exists, file, dir, git) ==
    LET base == [Unconstructed EXCEPT
                    !.constructed = TRUE,
                    !._adapters =
                        IF git.isdir THEN <<"fs", "git">> ELSE <<"fs">>,
                    !._repository =
                        IF git.isdir THEN RepositoryOf(git) ELSE NoRepository]
        \* for DTProjectSubClass in [DTProjectV1to3, DTProjectV4]
        first == IF DTProjectV1to3_is_instance_of(path, exists, file)
                 THEN DTProjectV1to3__init__(
                          [base EXCEPT !.cls = "DTProjectV1to3"],
                          path, exists, file)
                 ELSE base
        second == IF DTProjectV4_is_instance_of(path, exists, dir)
                  THEN DTProjectV4__init__(
                           [first EXCEPT !.cls = "DTProjectV4"],
                           path, exists, dir)
                  ELSE first
    IN  second

\* the `type` property (lines 150-153, 786-788, 916-918)
type(self) ==
    CASE self.cls = "DTProjectV4" -> self._layers.template.name
      [] self.cls = "DTProjectV1to3" -> self._type
      [] OTHER -> None

\* the `type_version` property (lines 155-158, 790-792, 920-922)
type_version(self) ==
    CASE self.cls = "DTProjectV4" -> self._layers.template.version
      [] self.cls = "DTProjectV1to3" -> self._type_version
      [] OTHER -> None

\* the `version` property (lines 145-148, 782-784, 912-914)
version(self) ==
    CASE self.cls = "DTProjectV4" -> self._layers.self.version
      [] self.cls = "DTProjectV1to3" -> self._version
      [] OTHER -> None

\* the `metadata` property (lines 798-806, 928-930) of a resolved project
metadata(self) ==
    IF self.cls = "DTProjectV4"
    THEN [k \in {"VERSION", "TYPE", "TYPE_VERSION", "PATH"} |->
            CASE k = "VERSION" -> version(self)
              [] k = "TYPE" -> type(self)
              [] k = "TYPE_VERSION" -> type_version(self)
              [] OTHER -> PATH]
    ELSE self._project_info

\* lines 204-206
needs_recipe(self) == type(self) = "template-exercise"

\* str.lower()
lower(s) ==
    CASE s = "Foo" -> "foo"
      [] s = "Bar" -> "bar"
      [] s = "Repo" -> "repo"
      [] OTHER -> s

\* os.path.basename(self.path)
Basename == "proj"

\* the `name` property (lines 761-768, 890-898)
name(self) ==
    LET fallback == IF self._repository.set /\ Truthy(self._repository.name)
                    THEN self._repository.name
                    ELSE Basename
    IN  CASE self.cls = "DTProjectV4" ->
                lower(IF self._layers.self.name # ""
                      THEN self._layers.self.name
                      ELSE fallback)
          [] self.cls = "DTProjectV1to3" ->
                lower(IF "NAME" \in DOMAIN self._project_info
                      THEN self._project_info["NAME"]
                      ELSE fallback)
          [] OTHER -> None

-----------------------------------------------------------------------------
(* Template mapping tables (constants.py) and the path resolver; a path is  *)
(* the sequence of its segments                                            *)

\* self.path
ProjectPath == <<"proj">>

Mapping(local, destination) == [local |-> local, destination |-> destination]

TEMPLATE_TO_SRC(n) ==
    [t \in {"template-basic", "template-exercise"} |->
        [v \in {"3"} |->
            IF t = "template-basic"
            THEN Mapping(<<"packages", n>>, <<"code", n>>)
            ELSE Mapping(<<"packages", "*">>, <<"code", n, "packages">>)]]

TEMPLATE_TO_ASSETS(n) ==
    [t \in {"template-basic", "template-exercise"} |->
        [v \in {"3"} |->
            IF t = "template-basic"
            THEN Mapping(<<"assets">>, <<"data", n>>)
            ELSE Mapping(<<"assets", "*">>, <<"data", n>>)]]

\* pathlib's Path(p).stem, on the last segment of p: the segment without its
\* last suffix
stem(segment) ==
    IF \A i \in 1..Len(segment) : segment[i] # "."
    THEN segment
    ELSE LET p == CHOOSE i \in 1..Len(segment) :
                      /\ segment[i] = "."
                      /\ \A j \in (i + 1)..Len(segment) : segment[j] # "."
         IN  IF 1 < p /\ p < Len(segment)
             THEN SubSeq(segment, 1, p - 1)
             ELSE segment

\* glob.glob(<dir>/*): the entries of the directory, in listing order,
\* without the hidden ones
glob(entries) == SelectSeq(entries, LAMBDA e : Head(e.name) # ".")

\* lines 515-531 and 564-580: the pairs of a mapping, `root` being the
\* override root (<<>> when none is given)
ResolvePaths(op, mapping, root, entries) ==
    LET base == IF root # <<>> THEN root ELSE ProjectPath
        local == mapping.local
        parent == SubSeq(local, 1, Len(local) - 1)
    IN  IF local # <<>> /\ local[Len(local)] = "*"
        THEN LET matches == glob(entries)
                 dirs == SelectSeq(matches, LAMBDA e : e.isdir)
                 \* os.path.join(root, os.path.relpath(loc, self.path))
                 locals == [i \in 1..Len(dirs) |->
                              base \o parent \o <<Join(dirs[i].name)>>]
                 destinations ==
                     [i \in 1..Len(dirs) |->
                         mapping.destination \o <<Join(stem(dirs[i].name))>>]
             IN  Returned(op, [locals |-> locals,
                               destinations |-> destinations])
        ELSE Returned(op, [locals |-> <<base \o local>>,
                           destinations |-> <<mapping.destination>>])

\* whether a template table has an entry for the project
Supported(self, table) ==
    /\ type(self) \in DOMAIN table
    /\ type_version(self) \in DOMAIN table[type(self)]

\* lines 501-531
code_paths(self, root, entries) ==
    IF ~Supported(self, TEMPLATE_TO_SRC(""))
    THEN Raised("code_paths", "UnsupportedDTProjectVersion")
    ELSE ResolvePaths(
             "code_paths",
             TEMPLATE_TO_SRC(name(self))[type(self)][type_version(self)],
             root, entries)

\* lines 550-580
assets_paths(self, root, entries) ==
    IF ~Supported(self, TEMPLATE_TO_ASSETS(""))
    THEN Raised("assets_paths", "UnsupportedDTProjectVersion")
    ELSE ResolvePaths(
             "assets_paths",
             TEMPLATE_TO_ASSETS(name(self))[type(self)][type_version(self)],
             root, entries)

-----------------------------------------------------------------------------
(* The recipe indirection *)

\* recipe.get_recipe_project_dir: the cache directory of a recipe
get_recipe_project_dir(repository, branch, location) ==
    Join(<<"/recipes/", repository, "/", branch, "/", location>>)

\* The three arguments every recipe collaborator is called with (lines
\* 217-221, 314-318, 334-338), evaluated left to right; a key the metadata
\* lacks raises KeyError.
RecipeArgs(self) ==
    LET m == metadata(self)
        has(k) == k \in DOMAIN m
    IN  IF ~has("RECIPE_REPOSITORY")
           \/ (~Truthy(self._recipe_version) /\ ~has("RECIPE_BRANCH"))
           \/ ~has("RECIPE_LOCATION")
        THEN [ok |-> FALSE, args |-> <<>>]
        ELSE [ok |-> TRUE,
              args |-> <<m["RECIPE_REPOSITORY"],
                         IF Truthy(self._recipe_version)
                         THEN self._recipe_version
                         ELSE m["RECIPE_BRANCH"],
                         m["RECIPE_LOCATION"]>>]

\* lines 208-223: the `recipe_dir` property
recipe_dir(self) ==
    IF ~needs_recipe(self)
    THEN Returned("recipe_dir", None)
    ELSE IF Truthy(self._custom_recipe_dir)
    THEN Returned("recipe_dir", self._custom_recipe_dir)
    ELSE IF ~RecipeArgs(self).ok
    THEN Raised("recipe_dir", "KeyError")
    ELSE LET a == RecipeArgs(self).args
         IN  Returned("recipe_dir", get_recipe_project_dir(a[1], a[2], a[3]))

\* a call to a recipe collaborator and what it reported
Call(fn, args, result) == [fn |-> fn, args |-> args, result |-> result]

\* lines 301-302
set_recipe_dir(self, path) == [self EXCEPT !._custom_recipe_dir = path]

\* lines 304-305
set_recipe_version(self, branch) == [self EXCEPT !._recipe_version = branch]

-----------------------------------------------------------------------------
(* Inputs: the descriptors found on disk *)

KeyOrder ==
    <<"TYPE_VERSION", "TYPE", "VERSION", "RECIPE_REPOSITORY",
      "RECIPE_BRANCH", "RECIPE_LOCATION", "NAME">>

\* the value a descriptor of type `ty` and version `tv` gives to key k
ValueOf(k, tv, ty) ==
    CASE k = "TYPE_VERSION" -> tv
      [] k = "TYPE" -> ty
      [] k = "VERSION" -> "1.0"
      [] k = "RECIPE_REPOSITORY" -> "repo"
      [] k = "RECIPE_BRANCH" -> "main"
      [] k = "RECIPE_LOCATION" -> "loc"
      [] OTHER -> "Foo"

\* the .dtproject file with one KEY=value line for each key of `keys`
FileOf(keys, tv, ty) ==
    LET present == SelectSeq(KeyOrder, LAMBDA k : k \in keys)
    IN  File([i \in 1..Len(present) |->
                 <<present[i], "=", ValueOf(present[i], tv, ty)>>])

AllKeys == {KeyOrder[i] : i \in 1..Len(KeyOrder)}

ExerciseFile == FileOf(AllKeys, "3", "template-exercise")
BasicFile == FileOf({"TYPE_VERSION", "TYPE", "VERSION"}, "3", "template-basic")
\* a descriptor with the line `NAME=`
EmptyNameFile == File(Append(BasicFile.lines, <<"NAME", "=">>))

\* the .dtproject entries the object is constructed on
ProjectFiles ==
    {NoFile, File(<<>>), ExerciseFile, BasicFile, EmptyNameFile,
     FileOf(AllKeys, "*", "template-exercise"),
     FileOf({"TYPE_VERSION", "TYPE"}, "3", "template-basic")}

ValidLayer(n, ver) == LayerFile("valid", n, ver)

\* a dtproject/ directory whose template layer is `template` and whose other
\* required layers are valid
LayersDir(template, custom) ==
    [kind |-> "dir",
     required |-> [l \in RequiredLayerNames |->
                     CASE l = "self" -> ValidLayer("Bar", "2.0")
                       [] l = "template" -> template
                       [] l = "distro" -> ValidLayer("ente", "")
                       [] OTHER -> ValidLayer("", "")],
     custom |-> custom]

\* a dtproject/ directory whose self layer has `name: ""`
EmptyNameDir ==
    [LayersDir(ValidLayer("template-basic", "4"), <<>>)
        EXCEPT !.required["self"] = ValidLayer("", "2.0")]

NoDir ==
    [kind |-> "missing",
     required |-> [l \in RequiredLayerNames |-> LayerFile("missing", "", "")],
     custom |-> <<>>]

\* the dtproject entries the object is constructed on
ProjectDirs ==
    {NoDir,
     [NoDir EXCEPT !.kind = "file"],
     LayersDir(ValidLayer("template-exercise", "4"), <<>>),
     LayersDir(ValidLayer("template-basic", "4"), <<>>),
     LayersDir(LayerFile("malformed", "", ""), <<>>),
     EmptyNameDir}

\* no .git directory
NoGit ==
    [isdir |-> FALSE, name |-> None, branch |-> <<>>, head_version |-> <<>>,
     index_nmodified |-> 0, index_nadded |-> 0]
\* what _get_repo_info reports of a working copy: the repository its origin
\* names (None: no origin), the branch (HEAD when detached), the tag on HEAD
\* (ND when there is none) and the numbers of modified and of added files
GitInfo(n, branch, head, nmodified, nadded) ==
    [isdir |-> TRUE, name |-> n, branch |-> branch, head_version |-> head,
     index_nmodified |-> nmodified, index_nadded |-> nadded]
\* a clean working copy on branch main with no tag on HEAD
Git(n) == GitInfo(n, <<"main">>, <<"ND">>, 0, 0)

GitDirs == {NoGit, Git("Repo"), Git(None)}

\* arguments of set_recipe_dir and of set_recipe_version
CustomDirs == {"", "/custom"}
Branches == {"", "v2"}

\* the directories a recipe can be looked for in
RecipeDirs ==
    {"/custom"} \cup
    {get_recipe_project_dir("repo", b, "loc") : b \in {"main", "v2"}}

-----------------------------------------------------------------------------
(* The life of one DTProject object *)

Init ==
    /\ pathExists \in BOOLEAN
    /\ dotfile \in (IF pathExists THEN ProjectFiles ELSE {NoFile})
    /\ dtprojectDir \in (IF pathExists THEN ProjectDirs ELSE {NoDir})
    /\ gitDir \in (IF pathExists THEN GitDirs ELSE {NoGit})
    /\ listing = <<>>
    /\ launchersDir = NoLaunchers
    /\ configurationsFile = NoConfigurations
    /\ existing \in SUBSET RecipeDirs
    /\ project = Unconstructed
    /\ ret = NoCall

\* DTProject(path)
Construct ==
    /\ ~project.constructed
    /\ project' = DTProject__init__(PATH, pathExists, dotfile, dtprojectDir, gitDir)
    /\ ret' = Returned("__init__", None)
    /\ UNCHANGED <<disk, existing>>

SetRecipeDir ==
    /\ project.constructed
    /\ \E path \in CustomDirs :
          /\ project' = set_recipe_dir(project, path)
          /\ ret' = Returned("set_recipe_dir", path)
    /\ UNCHANGED <<disk, existing>>

SetRecipeVersion ==
    /\ project.constructed
    /\ \E branch \in Branches :
          /\ project' = set_recipe_version(project, branch)
          /\ ret' = Returned("set_recipe_version", branch)
    /\ UNCHANGED <<disk, existing>>

\* reading the recipe_dir property
RecipeDir ==
    /\ project.constructed
    /\ ret' = recipe_dir(project)
    /\ UNCHANGED <<disk, existing, project>>

\* reading the name property
Name ==
    /\ project.constructed
    /\ ret' = Returned("name", name(project))
    /\ UNCHANGED <<disk, existing, project>>

\* ensure_recipe_exists without its final check (lines 322-324)
ensure_recipe_exists_unchecked(self, dirs, cloned, created) ==
    LET op == "ensure_recipe_exists"
        rd == recipe_dir(self)
        a == RecipeArgs(self).args
        after == IF cloned /\ created
                 THEN dirs \cup {get_recipe_project_dir(a[1], a[2], a[3])}
                 ELSE dirs
        call == <<Call("clone_recipe", a, cloned)>>
        unchanged(r) == [ret |-> r, dirs |-> dirs]
    IN
    IF ~needs_recipe(self)
    THEN unchanged(Returned(op, None))
    ELSE IF rd.status # "returned"
    THEN unchanged(Raised(op, rd.status))
    ELSE IF rd.value \in dirs
    THEN unchanged(Returned(op, None))
    ELSE IF ~RecipeArgs(self).ok
    THEN unchanged(Raised(op, "KeyError"))
    ELSE IF ~cloned
    THEN [ret |-> [RaisedAt(op, "RecipeProjectNotFound", "not downloaded")
                      EXCEPT !.called = call],
          dirs |-> after]
    ELSE [ret |-> [Returned(op, None) EXCEPT !.called = call], dirs |-> after]

\* lines 307-324; clone_recipe reports `cloned` and, when it succeeded,
\* has or has not `created` the directory the recipe is expected in
ensure_recipe_exists(self, dirs, cloned, created) ==
    LET op == "ensure_recipe_exists"
        rd == recipe_dir(self)
        a == RecipeArgs(self).args
        after == IF cloned /\ created
                 THEN dirs \cup {get_recipe_project_dir(a[1], a[2], a[3])}
                 ELSE dirs
        call == <<Call("clone_recipe", a, cloned)>>
        unchanged(r) == [ret |-> r, dirs |-> dirs]
    IN
    IF ~needs_recipe(self)
    THEN unchanged(Returned(op, None))
    ELSE IF rd.status # "returned"
    THEN unchanged(Raised(op, rd.status))
    ELSE IF rd.value \in dirs
    THEN unchanged(Returned(op, None))
    ELSE IF ~RecipeArgs(self).ok
    THEN unchanged(Raised(op, "KeyError"))
    ELSE IF ~cloned
    THEN [ret |-> [RaisedAt(op, "RecipeProjectNotFound", "not downloaded")
                      EXCEPT !.called = call],
          dirs |-> after]
    ELSE IF rd.value \notin after
    THEN [ret |-> [RaisedAt(op, "RecipeProjectNotFound", "not found")
                      EXCEPT !.called = call],
          dirs |-> after]
    ELSE [ret |-> [Returned(op, None) EXCEPT !.called = call], dirs |-> after]

EnsureRecipeExists ==
    /\ project.constructed
    /\ \E cloned \in BOOLEAN, created \in BOOLEAN :
          LET out == ensure_recipe_exists(project, existing, cloned, created)
          IN  /\ ret' = out.ret
              /\ existing' = out.dirs
    /\ UNCHANGED <<disk, project>>

\* update_cached_recipe without the test of the custom directory (line 331)
update_cached_recipe_any_dir(self, op, outcome) ==
    IF needs_recipe(self)
    THEN IF ~RecipeArgs(self).ok
         THEN Raised(op, "KeyError")
         ELSE LET call ==
                      <<Call("update_recipe", RecipeArgs(self).args, outcome)>>
              IN  IF outcome = "UserError"
                  THEN [Raised(op, "UserError") EXCEPT !.called = call]
                  ELSE [Returned(op, outcome = "True") EXCEPT !.called = call]
    ELSE Returned(op, FALSE)

\* lines 329-340; `outcome` is what update_recipe does: it returns True or
\* False, or raises UserError
update_cached_recipe(self, op, outcome) ==
    IF needs_recipe(self) /\ ~Truthy(self._custom_recipe_dir)
    THEN IF ~RecipeArgs(self).ok
         THEN Raised(op, "KeyError")
         ELSE LET call ==
                      <<Call("update_recipe", RecipeArgs(self).args, outcome)>>
              IN  IF outcome = "UserError"
                  THEN [Raised(op, "UserError") EXCEPT !.called = call]
                  ELSE [Returned(op, outcome = "True") EXCEPT !.called = call]
    ELSE Returned(op, FALSE)

UpdateOutcomes == {"True", "False", "UserError"}

UpdateCachedRecipe ==
    /\ project.constructed
    /\ \E outcome \in UpdateOutcomes :
          ret' = update_cached_recipe(project, "update_cached_recipe", outcome)
    /\ UNCHANGED <<disk, existing, project>>

\* lines 326-327
EnsureRecipeUpdated ==
    /\ project.constructed
    /\ \E outcome \in UpdateOutcomes :
          ret' = update_cached_recipe(project, "ensure_recipe_updated", outcome)
    /\ UNCHANGED <<disk, existing, project>>

Next ==
    \/ Construct
    \/ SetRecipeDir
    \/ SetRecipeVersion
    \/ RecipeDir
    \/ Name
    \/ EnsureRecipeExists
    \/ UpdateCachedRecipe
    \/ EnsureRecipeUpdated

Spec == Init /\ [][Next]_vars

-----------------------------------------------------------------------------
(* The two descriptor parsers, each called on every descriptor *)

\* all sequences over S of length at most n
SeqsUpTo(S, n) == UNION {[1..k -> S] : k \in 0..n}

Alphabet == {" ", "a", "=", "#"}

\* one-line files over the alphabet
CharFiles == {File(<<l>>) : l \in SeqsUpTo(Alphabet, MaxLineLen)}

SampleLines ==
    {<<"a", "=", "a">>, <<"A", " ", "=">>, <<" ", "#", "a">>, <<" ">>,
     <<"a", "=", "a", "=">>, <<"b">>}

\* files of several lines
SampleFiles == {File(f) : f \in SeqsUpTo(SampleLines, MaxLines)}

\* descriptors with any set of keys, of every type and version
KeyFiles ==
    {FileOf(keys, tv, ty) :
        keys \in SUBSET AllKeys,
        tv \in {"2", "3", "4", "*"},
        ty \in {"template-exercise", "template-basic"}}

ParserFiles ==
    {NoFile, [kind |-> "dir", lines |-> <<>>]}
        \cup CharFiles \cup SampleFiles \cup KeyFiles

LayerStates == {"missing", "dir", "malformed", "valid"}

\* the record layer l holds when its file is valid
LayerContent(l) ==
    CASE l = "self" -> [name |-> "Bar", version |-> "2.0"]
      [] l = "template" -> [name |-> "template-basic", version |-> "4"]
      [] l = "distro" -> [name |-> "ente", version |-> ""]
      [] OTHER -> [name |-> "", version |-> ""]

\* the i-th custom layer file: its stem (a word and i) is an identifier or not, its
\* content does or does not load
CustomLayer(i, word, state) ==
    [name |-> Join(<<word, ToString(i)>>),
     state |-> state,
     identifier |-> word = "extra"]

CustomLayers ==
    UNION {
        {[i \in 1..k |-> CustomLayer(i, c[i][1], c[i][2])] :
            c \in [1..k -> {"extra", "my-layer"} \X {"valid", "malformed"}]}
        : k \in 0..MaxCustom}

ParserDirs ==
    {NoDir, [NoDir EXCEPT !.kind = "file"]} \cup
    {[kind |-> "dir",
      required |-> [l \in RequiredLayerNames |->
                      LayerFile(st[l], LayerContent(l).name,
                                LayerContent(l).version)],
      custom |-> c] :
        st \in [RequiredLayerNames -> LayerStates], c \in CustomLayers}

InitParsers ==
    /\ pathExists \in BOOLEAN
    /\ \/ /\ dotfile \in (IF pathExists THEN ParserFiles ELSE {NoFile})
          /\ dtprojectDir = NoDir
       \/ /\ dotfile = NoFile
          /\ dtprojectDir \in (IF pathExists THEN ParserDirs ELSE {NoDir})
    /\ gitDir = NoGit
    /\ listing = <<>>
    /\ launchersDir = NoLaunchers
    /\ configurationsFile = NoConfigurations
    /\ existing = {}
    /\ project = Unconstructed
    /\ ret = NoCall

\* DTProjectV1to3._get_project_info(path), up to the metadata of line 959
ReadDescriptor ==
    /\ ret.op = "none"
    /\ pathExists
    /\ dotfile.kind = "file"
    /\ ret' = [ReadMetadata(dotfile) EXCEPT !.op = "ReadMetadata"]
    /\ UNCHANGED <<disk, existing, project>>

\* DTProjectV1to3._get_project_info(path)
GetProjectInfo ==
    /\ ret.op = "none"
    /\ ret' = _get_project_info(PATH, pathExists, dotfile)
    /\ UNCHANGED <<disk, existing, project>>

\* DTProjectV4._load_layers(path)
LoadLayers ==
    /\ ret.op = "none"
    /\ ret' = _load_layers(PATH, pathExists, dtprojectDir)
    /\ UNCHANGED <<disk, existing, project>>

NextParsers ==
    \/ ReadDescriptor
    \/ GetProjectInfo
    \/ LoadLayers

SpecParsers == InitParsers /\ [][NextParsers]_vars

-----------------------------------------------------------------------------
(* Properties of the legacy parser *)

\* the lines of the descriptor, trimmed
Trimmed(i) == strip(dotfile.lines[i])

\* the lines that remain once the blank lines and the comments are dropped
RemainingIdx ==
    {i \in 1..Len(dotfile.lines) :
        Trimmed(i) # <<>> /\ Head(Trimmed(i)) # "#"}

CountEq(line) == Cardinality({j \in 1..Len(line) : line[j] = "="})

\* the key and the value of a line holding exactly one `=`
EqPos(line) == CHOOSE j \in 1..Len(line) : line[j] = "="
KeyOfLine(line) == Join(upper(strip(SubSeq(line, 1, EqPos(line) - 1))))
ValueOfLine(line) == Join(strip(SubSeq(line, EqPos(line) + 1, Len(line))))

\* the metadata the descriptor parses to, when it parses
ParsedMetadata == ReadMetadata(dotfile)

\* C3: a legacy descriptor whose TYPE_VERSION is `*` or is no key of the
\* required-field table fails with UnsupportedDTProjectVersion, never with
\* MalformedDTProject, whatever other keys it has or lacks.
C3_UnsupportedVersionNeverMalformed ==
    (/\ ret.op = "_get_project_info"
     /\ pathExists
     /\ dotfile.kind = "file"
     /\ ParsedMetadata.status = "returned"
     /\ "TYPE_VERSION" \in DOMAIN ParsedMetadata.value
     /\ ParsedMetadata.value["TYPE_VERSION"] \notin {"1", "2", "3"})
        => ret.status = "UnsupportedDTProjectVersion"

C3_Witness ==
    /\ ret.op = "_get_project_info"
    /\ ret.status = "UnsupportedDTProjectVersion"
    /\ ParsedMetadata.status = "returned"
    /\ DOMAIN ParsedMetadata.value = {"TYPE_VERSION", "NAME"}
    /\ ParsedMetadata.value["TYPE_VERSION"] = "4"

\* C4, as claimed: once blank lines and comments are dropped, if every
\* remaining line holds exactly one `=` the metadata maps the upper-cased
\* trimmed key of each such line to its trimmed value; otherwise parsing fails
\* and no metadata is returned.
C4_EveryLineMapped ==
    ret.op = "ReadMetadata" =>
        IF \A i \in RemainingIdx : CountEq(Trimmed(i)) = 1
        THEN /\ ret.status = "returned"
             /\ \A i \in RemainingIdx :
                    /\ KeyOfLine(Trimmed(i)) \in DOMAIN ret.value
                    /\ ret.value[KeyOfLine(Trimmed(i))] = ValueOfLine(Trimmed(i))
        ELSE ret.status # "returned"

\* C4, amended: for a file of at least one line, if every remaining line
\* holds exactly one `=` the metadata has exactly the upper-cased trimmed keys
\* of the remaining lines, each mapped to the trimmed value of the last line
\* with that key; otherwise parsing fails with ValueError.  A file without
\* lines fails with MalformedDTProject.
C4_LastLineOfAKeyMapped ==
    ret.op = "ReadMetadata" =>
        IF dotfile.lines = <<>>
        THEN ret.status = "MalformedDTProject"
        ELSE IF \A i \in RemainingIdx : CountEq(Trimmed(i)) = 1
        THEN /\ ret.status = "returned"
             /\ DOMAIN ret.value = {KeyOfLine(Trimmed(i)) : i \in RemainingIdx}
             /\ \A i \in RemainingIdx :
                    (\A j \in RemainingIdx :
                        j > i => KeyOfLine(Trimmed(j)) # KeyOfLine(Trimmed(i)))
                    => ret.value[KeyOfLine(Trimmed(i))] = ValueOfLine(Trimmed(i))
        ELSE ret.status = "ValueError"

C4_Witness ==
    /\ ret.op = "ReadMetadata"
    /\ ret.status = "returned"
    /\ Cardinality(RemainingIdx) = 2
    /\ Len(dotfile.lines) = 2
    /\ DOMAIN ret.value = {"A"}
    /\ ret.value["A"] = ""
    /\ ValueOfLine(Trimmed(1)) = "a"

-----------------------------------------------------------------------------
(* Properties of the layered parser *)

\* C5: _load_layers raises DTProjectNotFound when the dtproject entry is
\* missing and MalformedDTProject when it is no directory; it returns the
\* Layers aggregate only if the four required layer files exist and each
\* parsed into its record: a missing or malformed required layer makes it
\* fail.
C5_RequiredLayersOrFailure ==
    (ret.op = "_load_layers" /\ pathExists) =>
        /\ dtprojectDir.kind = "missing" => ret.status = "DTProjectNotFound"
        /\ dtprojectDir.kind = "file" => ret.status = "MalformedDTProject"
        /\ ret.status = "returned" =>
              /\ dtprojectDir.kind = "dir"
              /\ \A l \in {"self", "template", "distro", "base"} :
                    /\ dtprojectDir.required[l].state = "valid"
                    /\ ret.value[l] = dtprojectDir.required[l]

C5_Witness ==
    /\ ret.op = "_load_layers"
    /\ ret.status = "returned"
    /\ Len(dtprojectDir.custom) = 1
    /\ ret.value.custom = {"extra1"}

-----------------------------------------------------------------------------
(* The path resolver, called on a resolved project *)

NameChars == {"a", "."}

\* the names a directory entry can have
EntryNames ==
    SeqsUpTo(NameChars, MaxNameLen) \ {<<>>, <<".">>, <<".", ".">>}

Entries == [name : EntryNames, isdir : BOOLEAN]

\* directory listings: entries of different names, in any order
Listings ==
    {l \in SeqsUpTo(Entries, MaxEntries) :
        \A i, j \in 1..Len(l) : i # j => l[i].name # l[j].name}

\* the override roots, <<>> standing for none
Roots == {<<>>, <<"remote">>}

InitPaths ==
    /\ pathExists = TRUE
    /\ \/ /\ dotfile \in {ExerciseFile, BasicFile,
                          FileOf(AllKeys, "2", "template-basic")}
          /\ dtprojectDir = NoDir
       \/ /\ dotfile = NoFile
          /\ dtprojectDir = LayersDir(ValidLayer("template-exercise", "4"), <<>>)
    /\ gitDir = NoGit
    /\ listing \in Listings
    /\ launchersDir = NoLaunchers
    /\ configurationsFile = NoConfigurations
    /\ existing = {}
    /\ project = DTProject__init__(PATH, pathExists, dotfile, dtprojectDir, gitDir)
    /\ ret = NoCall

CodePaths ==
    /\ ret.op = "none"
    /\ \E root \in Roots : ret' = code_paths(project, root, listing)
    /\ UNCHANGED <<disk, existing, project>>

AssetsPaths ==
    /\ ret.op = "none"
    /\ \E root \in Roots : ret' = assets_paths(project, root, listing)
    /\ UNCHANGED <<disk, existing, project>>

NextPaths ==
    \/ CodePaths
    \/ AssetsPaths

SpecPaths == InitPaths /\ [][NextPaths]_vars

\* the mapping the last call looked up
MappingOf(op) ==
    IF op = "code_paths"
    THEN TEMPLATE_TO_SRC(name(project))[type(project)][type_version(project)]
    ELSE TEMPLATE_TO_ASSETS(name(project))[type(project)][type_version(project)]

\* the matched directories, in match order
MatchedDirs ==
    SelectSeq(listing, LAMBDA e : e.isdir /\ Head(e.name) # ".")

\* C6: code_paths and assets_paths return two lists of equal length: one
\* pair (root/local-spec, destination) when the local-spec is no pattern, and
\* for a pattern one pair per matched directory, in match order, whose
\* destination is the fixed destination joined with the full final path
\* segment of the directory.
C6_DestinationKeepsFullSegment ==
    (ret.op \in {"code_paths", "assets_paths"} /\ ret.status = "returned") =>
        LET m == MappingOf(ret.op)
            locals == ret.value.locals
            destinations == ret.value.destinations
            parent == SubSeq(m.local, 1, Len(m.local) - 1)
        IN  /\ Len(locals) = Len(destinations)
            /\ \E root \in {ProjectPath, <<"remote">>} :
                  IF m.local[Len(m.local)] # "*"
                  THEN /\ locals = <<root \o m.local>>
                       /\ destinations = <<m.destination>>
                  ELSE /\ Len(locals) = Len(MatchedDirs)
                       /\ \A i \in 1..Len(MatchedDirs) :
                             LET segment == Join(MatchedDirs[i].name)
                             IN  /\ locals[i] = root \o parent \o <<segment>>
                                 /\ destinations[i] =
                                        m.destination \o <<segment>>

-----------------------------------------------------------------------------
(* Properties of the construction *)

LegacyValidates == DTProjectV1to3_is_instance_of(PATH, pathExists, dotfile)
LayeredValidates == DTProjectV4_is_instance_of(PATH, pathExists, dtprojectDir)

\* C1: when neither the legacy nor the layered parser validates the
\* directory, DTProject(path) fails: it never completes normally leaving an
\* unresolved project (no variant, no type).
C1_UnresolvedConstructionFails ==
    (ret.op = "__init__" /\ pathExists /\ ~LegacyValidates /\ ~LayeredValidates)
        => /\ ret.status # "returned"
           /\ ~project.constructed

\* C2: on a directory holding both a valid .dtproject file and a valid
\* dtproject/ directory, DTProject(path) commits to the first candidate that
\* validates, the legacy one, and the layered candidate is not applied.
C2_FirstValidCandidateWins ==
    (project.constructed /\ LegacyValidates /\ LayeredValidates)
        => /\ project.cls = "DTProjectV1to3"
           /\ DOMAIN project._layers = {}

-----------------------------------------------------------------------------
(* Properties of the recipe indirection *)

CustomDirActive == Truthy(project._custom_recipe_dir)

\* the directory the descriptor's three recipe fields of a legacy project,
\* and the version override, compute
DeclaredRecipeDir ==
    get_recipe_project_dir(
        project._project_info["RECIPE_REPOSITORY"],
        IF Truthy(project._recipe_version)
        THEN project._recipe_version
        ELSE project._project_info["RECIPE_BRANCH"],
        project._project_info["RECIPE_LOCATION"])

\* C7: on a resolved project of type template-exercise (legacy or layered)
\* with no custom recipe directory, recipe_dir returns the directory computed
\* from the repository, branch-or-version and location fields; it returns
\* None iff the type is not template-exercise.
C7_RecipeDirFromFields ==
    ret.op = "recipe_dir" =>
        /\ (needs_recipe(project) /\ ~CustomDirActive)
              => /\ ret.status = "returned"
                 /\ ret.value \in RecipeDirs \ {"/custom"}
                 /\ project.cls = "DTProjectV1to3"
                        => ret.value = DeclaredRecipeDir
        /\ ~needs_recipe(project)
              <=> (ret.status = "returned" /\ ret.value = None)

\* C8: on a recipe-consuming project, after any sequence of set_recipe_dir
\* and set_recipe_version calls, recipe_dir is the custom directory when one
\* is active, and otherwise the directory computed with the latest version
\* override (or else RECIPE_BRANCH); a version override does not change the
\* result while a custom directory is active.
C8_OverridesDecideRecipeDir ==
    (ret.op = "recipe_dir" /\ needs_recipe(project))
        => /\ ret.status = "returned"
           /\ CustomDirActive => ret.value = project._custom_recipe_dir
           /\ (~CustomDirActive /\ project.cls = "DTProjectV1to3")
                 => ret.value = DeclaredRecipeDir

\* C9: while a custom recipe directory is active, or when the project needs
\* no recipe, update_cached_recipe / ensure_recipe_updated returns False and
\* calls no collaborator.
C9_CustomRecipeNeverUpdated ==
    (/\ ret.op \in {"update_cached_recipe", "ensure_recipe_updated"}
     /\ (CustomDirActive \/ ~needs_recipe(project)))
        => /\ ret.status = "returned"
           /\ ret.value = FALSE
           /\ ret.called = <<>>

C9_Witness ==
    /\ ret.op = "ensure_recipe_updated"
    /\ needs_recipe(project)
    /\ CustomDirActive
    /\ ret.status = "returned"
    /\ ret.value = FALSE

\* C10: ensure_recipe_exists on a recipe-consuming project returns normally
\* only if the recipe directory exists at return; when clone_recipe was
\* called and reported failure, or the directory is still absent after the
\* clone, it raises RecipeProjectNotFound.  On a project that needs no recipe
\* it returns without calling a collaborator.
C10_RecipeExistsAtReturn ==
    ret.op = "ensure_recipe_exists" =>
        IF needs_recipe(project)
        THEN /\ ret.status = "returned"
                  => /\ recipe_dir(project).status = "returned"
                     /\ recipe_dir(project).value \in existing
             /\ \A i \in 1..Len(ret.called) :
                    \/ ret.called[i].fn # "clone_recipe"
                    \/ (/\ ret.called[i].result
                        /\ recipe_dir(project).value \in existing)
                    \/ ret.status = "RecipeProjectNotFound"
        ELSE ret.status = "returned" /\ ret.called = <<>>

C10_Witness ==
    /\ ret.op = "ensure_recipe_exists"
    /\ needs_recipe(project)
    /\ ret.status = "RecipeProjectNotFound"
    /\ Len(ret.called) = 1
    /\ ret.called[1].result
    /\ recipe_dir(project).value \notin existing

-----------------------------------------------------------------------------
(* Order of the layered parser, adapters and the clone under an override *)

RequiredPresent ==
    /\ dtprojectDir.kind = "dir"
    /\ \A l \in RequiredLayerNames :
          dtprojectDir.required[l].state \in {"malformed", "valid"}

\* C17: when all four required layer files are present and one of them is
\* malformed, _load_layers fails on that required layer (the first malformed
\* one) and never on a custom layer: no custom layer is loaded before the
\* required layers have parsed.
C17_RequiredLayersParsedBeforeCustom ==
    (/\ ret.op = "_load_layers"
     /\ pathExists
     /\ RequiredPresent
     /\ \E l \in RequiredLayerNames :
           dtprojectDir.required[l].state = "malformed")
        => /\ ret.status = "ParseError"
           /\ ret.value \in RequiredLayerNames
           /\ dtprojectDir.required[ret.value].state = "malformed"

\* C18: after construction `adapters` has no duplicates: it is fs, then git
\* iff <path>/.git is a directory, then dtproject exactly once iff a
\* descriptor format was committed.
C18_AdaptersOrderedSet ==
    project.constructed =>
        project._adapters =
            <<"fs">>
                \o (IF gitDir.isdir THEN <<"git">> ELSE <<>>)
                \o (IF project.cls # "DTProject" THEN <<"dtproject">> ELSE <<>>)

\* C19: while a custom recipe directory is active, ensure_recipe_exists on a
\* recipe-consuming project calls no clone; when the custom directory does
\* not exist it raises RecipeProjectNotFound.
C19_NoCloneUnderCustomDir ==
    (/\ ret.op = "ensure_recipe_exists"
     /\ needs_recipe(project)
     /\ CustomDirActive)
        => /\ ret.called = <<>>
           /\ project._custom_recipe_dir \notin existing
                 => ret.status = "RecipeProjectNotFound"

-----------------------------------------------------------------------------
(* Name resolution *)

\* the name the descriptor declares (None when it declares none): the NAME
\* key of the legacy file, the name field of the self layer
DeclaredName ==
    CASE project.cls = "DTProjectV4" -> project._layers.self.name
      [] "NAME" \in DOMAIN project._project_info -> project._project_info["NAME"]
      [] OTHER -> None

RepositoryName ==
    IF gitDir.isdir /\ Truthy(gitDir.name) THEN gitDir.name ELSE None

\* C14: on a resolved project of either variant, name is the lower-cased
\* declared name if the descriptor declares one (an empty value included),
\* otherwise the lower-cased repository name if a repository with a name was
\* resolved, otherwise the lower-cased directory base name.
C14_NamePrecedence ==
    (ret.op = "name" /\ project.cls # "DTProject") =>
        ret.value =
            lower(IF DeclaredName # None THEN DeclaredName
                  ELSE IF RepositoryName # None THEN RepositoryName
                  ELSE Basename)

-----------------------------------------------------------------------------
(* Image names.  A name is the sequence of its symbols; the characters of   *)
(* a branch or of a tag are symbols of their own.                           *)

MaxTagLen == 2

\* an optional str argument: None, or the text given
Absent == [none |-> TRUE, text |-> <<>>]
Text(t) == [none |-> FALSE, text |-> t]

\* utils.misc.assert_canonical_arch accepts these and raises on any other
CANONICAL_ARCH == {"amd64", "arm64v8"}

\* TRUE iff assert_canonical_arch(arch) returns
assert_canonical_arch(arch) == arch \in CANONICAL_ARCH

\* lines 175-177
head_version(self) ==
    IF self._repository.set THEN self._repository.head_version
    ELSE <<"latest">>

\* lines 183-186
version_name(self) ==
    IF self._repository.set
    THEN IF self._repository.branch # <<"HEAD">>
         THEN self._repository.branch
         ELSE head_version(self)
    ELSE <<"latest">>

\* the symbols made of ASCII letters, digits and underscores
AsciiWord == {"v", "_", "HEAD", "ND", "latest", "main"}
\* a letter outside ASCII
UnicodeWord == {"é"}

\* \w of a str pattern: the word characters of Unicode
IsWord(c) == c \in AsciiWord \cup UnicodeWord

\* re.sub(r"[^\w\-.]", "-", s)
re_sub(s) ==
    [i \in 1..Len(s) |->
        IF IsWord(s[i]) \/ s[i] = "-" \/ s[i] = "." THEN s[i] ELSE "-"]

\* lines 188-190
safe_version_name(self) == re_sub(version_name(self))

\* is_clean looking at the modified files only
is_clean_modified_only(self) ==
    IF self._repository.set
    THEN self._repository.index_nmodified = 0
    ELSE TRUE

\* lines 349-352
is_clean(self) ==
    IF self._repository.set
    THEN self._repository.index_nmodified + self._repository.index_nadded = 0
    ELSE TRUE

\* lines 342-347
is_release(self) ==
    IF ~is_clean(self) THEN FALSE
    ELSE IF self._repository.set /\ head_version(self) # <<"ND">> THEN TRUE
    ELSE FALSE

\* registry/owner/name:
Repository(self, a) == <<a.registry, "/", a.owner, "/", name(self), ":">>

\* image with the docs segment put before the loop segment
image_docs_first(self, a) ==
    IF ~assert_canonical_arch(a.arch)
    THEN RaisedAt("image", "ValueError", "arch")
    ELSE LET loop == IF a.loop THEN <<"-LOOP">> ELSE <<>>
             docs == IF a.docs THEN <<"-docs">> ELSE <<>>
             extra == IF ~a.extra.none /\ a.extra.text # <<>>
                      THEN <<"-">> \o a.extra.text ELSE <<>>
             ver == IF a.version.none THEN safe_version_name(self)
                    ELSE a.version.text
         IN  Returned("image",
                      Repository(self, a) \o ver \o extra \o docs \o loop
                          \o <<"-", a.arch>>)

\* lines 360-377
image(self, a) ==
    IF ~assert_canonical_arch(a.arch)
    THEN RaisedAt("image", "ValueError", "arch")
    ELSE LET loop == IF a.loop THEN <<"-LOOP">> ELSE <<>>
             docs == IF a.docs THEN <<"-docs">> ELSE <<>>
             extra == IF ~a.extra.none /\ a.extra.text # <<>>
                      THEN <<"-">> \o a.extra.text ELSE <<>>
             ver == IF a.version.none THEN safe_version_name(self)
                    ELSE a.version.text
         IN  Returned("image",
                      Repository(self, a) \o ver \o extra \o loop \o docs
                          \o <<"-", a.arch>>)

\* lines 403-416
image_release(self, a) ==
    IF ~is_release(self)
    THEN RaisedAt("image_release", "ValueError", "not in a release state")
    ELSE IF ~assert_canonical_arch(a.arch)
    THEN RaisedAt("image_release", "ValueError", "arch")
    ELSE LET docs == IF a.docs THEN <<"-docs">> ELSE <<>>
             ver == re_sub(head_version(self))
         IN  Returned("image_release",
                      Repository(self, a) \o ver \o docs \o <<"-", a.arch>>)

\* lines 418-428
manifest(self, a) ==
    LET ver == IF a.version.none THEN re_sub(version_name(self))
               ELSE a.version.text
    IN  Returned("manifest", Repository(self, a) \o ver)

\* Inputs
TagAlphabet == {"v", "_", ".", "!", "é"}
Tags == SeqsUpTo(TagAlphabet, MaxTagLen) \ {<<>>}

\* a detached HEAD with any tag or none and any index, and a branch of any
\* name with a clean index
TagGitDirs ==
    {NoGit}
        \cup {GitInfo("Repo", <<"HEAD">>, h, m, n) :
                h \in Tags \cup {<<"ND">>}, m \in 0..1, n \in 0..1}
        \cup {GitInfo("Repo", b, h, 0, 0) :
                b \in Tags, h \in {<<"ND">>, <<"v">>}}

Archs == {"amd64", "x86"}
Versions == {Absent, Text(<<"v">>)}
Extras == {Absent, Text(<<>>), Text(<<"vnc">>)}

ImageArgs ==
    [arch : Archs, registry : {"r"}, owner : {"o"}, version : Versions,
     loop : BOOLEAN, docs : BOOLEAN, extra : Extras]

ReleaseArgs ==
    [arch : Archs, registry : {"r"}, owner : {"o"}, docs : BOOLEAN]

ManifestArgs == [registry : {"r"}, owner : {"o"}, version : Versions]

InitTags ==
    /\ pathExists = TRUE
    /\ dotfile \in {ExerciseFile, NoFile}
    /\ dtprojectDir = NoDir
    /\ gitDir \in TagGitDirs
    /\ listing = <<>>
    /\ launchersDir = NoLaunchers
    /\ configurationsFile = NoConfigurations
    /\ existing = {}
    /\ project = Unconstructed
    /\ ret = NoCall

\* reading the safe_version_name property
SafeVersionName ==
    /\ project.constructed
    /\ ret' = Returned("safe_version_name", safe_version_name(project))
    /\ UNCHANGED <<disk, existing, project>>

Image ==
    /\ project.constructed
    /\ \E a \in ImageArgs : ret' = [image(project, a) EXCEPT !.args = a]
    /\ UNCHANGED <<disk, existing, project>>

ImageRelease ==
    /\ project.constructed
    /\ \E a \in ReleaseArgs :
          ret' = [image_release(project, a) EXCEPT !.args = a]
    /\ UNCHANGED <<disk, existing, project>>

Manifest ==
    /\ project.constructed
    /\ \E a \in ManifestArgs : ret' = [manifest(project, a) EXCEPT !.args = a]
    /\ UNCHANGED <<disk, existing, project>>

NextTags ==
    \/ Construct
    \/ SafeVersionName
    \/ Image
    \/ ImageRelease
    \/ Manifest

SpecTags == InitTags /\ [][NextTags]_vars

\* C11: image returns registry/owner/name:version[-extra][-LOOP][-docs]-arch,
\* each optional segment there iff its flag or value is set, in that order;
\* for an architecture outside the canonical set it raises and returns no
\* name.
C11_ImageTagFormat ==
    ret.op = "image" =>
        IF ret.args.arch \in CANONICAL_ARCH
        THEN /\ ret.status = "returned"
             /\ ret.value =
                    <<ret.args.registry, "/", ret.args.owner, "/",
                      name(project), ":">>
                    \o (IF ret.args.version.none
                        THEN safe_version_name(project)
                        ELSE ret.args.version.text)
                    \o (IF ret.args.extra \in {Absent, Text(<<>>)}
                        THEN <<>> ELSE <<"-">> \o ret.args.extra.text)
                    \o (IF ret.args.loop THEN <<"-LOOP">> ELSE <<>>)
                    \o (IF ret.args.docs THEN <<"-docs">> ELSE <<>>)
                    \o <<"-", ret.args.arch>>
        ELSE /\ ret.status = "ValueError"
             /\ ret.value = "arch"

C11_Witness ==
    /\ ret.op = "image"
    /\ ret.status = "returned"
    /\ ret.args.loop /\ ret.args.docs
    /\ ret.value =
          <<"r", "/", "o", "/", "foo", ":", "v", "-LOOP", "-docs", "-", "amd64">>

\* the project is in a release state: a repository was resolved, no file is
\* modified or added and HEAD carries a tag
ReleaseState ==
    /\ gitDir.isdir
    /\ gitDir.index_nmodified = 0
    /\ gitDir.index_nadded = 0
    /\ gitDir.head_version # <<"ND">>

\* C12: image_release returns a name only in a release state; in every
\* other state it raises the ValueError of the release check and returns
\* nothing.
C12_ReleaseTagOnlyInReleaseState ==
    ret.op = "image_release" =>
        /\ ret.status = "returned" => ReleaseState
        /\ ~ReleaseState
              => /\ ret.status = "ValueError"
                 /\ ret.value = "not in a release state"

C12_Witness ==
    /\ ret.op = "image_release"
    /\ ret.status = "returned"
    /\ gitDir.head_version = <<"v", "!">>
    /\ ret.value = <<"r", "/", "o", "/", "foo", ":", "v", "-", "-", "amd64">>

\* the symbols of [A-Za-z0-9_.-]
AsciiSafe == AsciiWord \cup {".", "-"}

\* the version segment of the name returned and the text it was made from
VersionSegment ==
    CASE ret.op = "safe_version_name" ->
            [seg |-> ret.value, src |-> version_name(project)]
      [] ret.op = "manifest" /\ ret.args.version.none ->
            [seg |-> SubSeq(ret.value, 7, Len(ret.value)),
             src |-> version_name(project)]
      [] ret.op = "image" /\ ret.status = "returned"
            /\ ret.args.version.none ->
            [seg |-> SubSeq(ret.value, 7, 6 + Len(version_name(project))),
             src |-> version_name(project)]
      [] ret.op = "image_release" /\ ret.status = "returned" ->
            [seg |-> SubSeq(ret.value, 7, 6 + Len(gitDir.head_version)),
             src |-> gitDir.head_version]
      [] OTHER -> [seg |-> <<>>, src |-> <<>>]

\* C13: the version segment made from the head tag (image_release) or from
\* the version name (safe_version_name, manifest and image without a
\* version) has only characters of [A-Za-z0-9_.-]: each character of the
\* text inside that set is kept in place and every other one, a non-ASCII
\* letter included, is replaced by "-".
C13_VersionSegmentAsciiSafe ==
    /\ Len(VersionSegment.seg) = Len(VersionSegment.src)
    /\ \A i \in 1..Len(VersionSegment.seg) :
          VersionSegment.seg[i] =
              IF VersionSegment.src[i] \in AsciiSafe
              THEN VersionSegment.src[i] ELSE "-"

-----------------------------------------------------------------------------
(* Launchers and configurations *)

MaxLaunchers == 2

\* the strings int() accepts, and their values
IsInteger(s) == s \in {"1", "2", "3", "4"}
int(s) ==
    CASE s = "1" -> 1
      [] s = "2" -> 2
      [] s = "3" -> 3
      [] OTHER -> 4

\* lines 287-297: the stems of the regular files of a launchers directory
\* that are executable or start with #!
LauncherStems(dir) ==
    LET files == SelectSeq(dir.files, LAMBDA f : f.isfile /\ f.runnable)
    IN  [i \in 1..Len(files) |-> files[i].stem]

\* lines 282-297: the loop over the roots; `found` is the list `launchers`
RECURSIVE ScanRoots(_, _)
ScanRoots(roots, found) ==
    IF roots = <<>> THEN found
    ELSE IF ~Head(roots).exists
    THEN ScanRoots(Tail(roots), found)
    ELSE ScanRoots(Tail(roots), LauncherStems(Head(roots)))

\* lines 267-299: `dirs` holds the launchers directory of the project and
\* the one of the recipe
launchers(self, dirs) ==
    IF type_version(self) = None
    THEN Raised("launchers", "TypeError")
    ELSE IF (IF IsInteger(type_version(self))
             THEN int(type_version(self)) ELSE -1) < 2
    THEN Raised("launchers", "NotImplementedError")
    ELSE IF needs_recipe(self) /\ recipe_dir(self).status # "returned"
    THEN Raised("launchers", recipe_dir(self).status)
    ELSE Returned("launchers",
                  ScanRoots(<<dirs.project>>
                                \o (IF needs_recipe(self)
                                    THEN <<dirs.recipe>> ELSE <<>>),
                            <<>>))

\* lines 480-493: `file` is the entry <path>/configurations.yaml
configurations(self, file) ==
    IF type_version(self) = None
    THEN Raised("configurations", "TypeError")
    ELSE IF ~IsInteger(type_version(self))
    THEN Raised("configurations", "ValueError")
    ELSE IF int(type_version(self)) < 2
    THEN Raised("configurations", "NotImplementedError")
    ELSE Returned("configurations",
                  IF type_version(self) = "2" /\ file.kind = "file"
                  THEN file.parsed
                  ELSE EmptyDict)

\* Inputs
\* an entry of a launchers directory: a file that is executable or has a
\* shebang, a file that has neither, or a directory
LauncherFiles ==
    {[stem |-> n, isfile |-> k[1], runnable |-> k[2]] :
        n \in {"a", "b"},
        k \in {<<TRUE, TRUE>>, <<TRUE, FALSE>>, <<FALSE, TRUE>>}}

ProjectLaunchers ==
    {NoDirectory}
        \cup {Directory(f) : f \in SeqsUpTo(LauncherFiles, MaxLaunchers)}

Launcher(n) == [stem |-> n, isfile |-> TRUE, runnable |-> TRUE]

RecipeLaunchers ==
    {NoDirectory, Directory(<<>>), Directory(<<Launcher("a")>>),
     Directory(<<Launcher("b")>>),
     Directory(<<Launcher("a"), Launcher("b")>>)}

ConfigurationsFiles ==
    {NoConfigurations,
     [kind |-> "dir", parsed |-> EmptyDict],
     [kind |-> "file", parsed |-> EmptyDict],
     [kind |-> "file", parsed |-> [n \in {"default"} |-> "configuration"]]}

\* the descriptors: legacy ones of template versions 1 to 3, layered ones
\* of template versions 1, 4 and x
FeatureDescriptors ==
    {<<FileOf({"TYPE_VERSION", "TYPE", "VERSION"}, tv, "template-basic"),
       NoDir>> : tv \in {"1", "2", "3"}}
        \cup {<<ExerciseFile, NoDir>>}
        \cup {<<NoFile, LayersDir(ValidLayer("template-basic", tv), <<>>)>> :
                tv \in {"1", "4", "x"}}

InitFeatures ==
    /\ pathExists = TRUE
    /\ \E d \in FeatureDescriptors :
          /\ dotfile = d[1]
          /\ dtprojectDir = d[2]
    /\ gitDir = NoGit
    /\ listing = <<>>
    /\ launchersDir \in [project : ProjectLaunchers, recipe : RecipeLaunchers]
    /\ configurationsFile \in ConfigurationsFiles
    /\ existing = {}
    /\ project = DTProject__init__(PATH, pathExists, dotfile, dtprojectDir, gitDir)
    /\ ret = NoCall

\* reading the launchers property
Launchers ==
    /\ project.constructed
    /\ ret' = launchers(project, launchersDir)
    /\ UNCHANGED <<disk, existing, project>>

Configurations ==
    /\ project.constructed
    /\ ret' = configurations(project, configurationsFile)
    /\ UNCHANGED <<disk, existing, project>>

NextFeatures ==
    \/ Launchers
    \/ Configurations

SpecFeatures == InitFeatures /\ [][NextFeatures]_vars

\* the stems of the launchers found in a launchers directory
StemsIn(dir) ==
    IF dir.exists
    THEN {dir.files[i].stem :
            i \in {j \in 1..Len(dir.files) :
                      dir.files[j].isfile /\ dir.files[j].runnable}}
    ELSE {}

TemplateVersionAtLeast2 == type_version(project) \in {"2", "3", "4"}

\* C15: for a template version of at least 2, launchers returns the stems of
\* the launchers of the project together with, when a recipe is required,
\* those of the recipe, so that a project launcher the recipe does not have
\* is still returned; for a lower or non-integer template version it raises
\* NotImplementedError.
C15_LaunchersOfProjectAndRecipe ==
    ret.op = "launchers" =>
        IF TemplateVersionAtLeast2
        THEN /\ ret.status = "returned"
             /\ {ret.value[i] : i \in 1..Len(ret.value)} =
                    StemsIn(launchersDir.project)
                        \cup (IF needs_recipe(project)
                              THEN StemsIn(launchersDir.recipe) ELSE {})
        ELSE ret.status = "NotImplementedError"

\* C16: configurations raises a not-supported error for every template
\* version other than "2"; for "2" it returns the mapping parsed from
\* configurations.yaml, empty when the file is absent.
C16_ConfigurationsOnlyForVersion2 ==
    ret.op = "configurations" =>
        IF type_version(project) = "2"
        THEN /\ ret.status = "returned"
             /\ ret.value = (IF configurationsFile.kind = "file"
                             THEN configurationsFile.parsed ELSE EmptyDict)
        ELSE ret.status = "NotImplementedError"

=============================================================================
